---- MODULE Spec2Model ----
(***************************************************************************)
(* Model of udp_toolkit: the sender (udp_toolkit_client.c: one clock-sync  *)
(* exchange, then the paced send loop) and the receiver                    *)
(* (udp_toolkit_server.c: the select loop answering sync requests,         *)
(* tracking sequence gaps and sampling throughput).                        *)
(*                                                                         *)
(* Time is counted in ticks, TicksPerSec ticks to the second.  `now' is    *)
(* the sender's monotonic clock; the receiver's monotonic clock reads      *)
(* now + skew.                                                             *)
(***************************************************************************)
EXTENDS Integers, Sequences, FiniteSets, TLC

(* ---- program constants ---- *)
HEADER_SIZE == 20
RetryLimit == 5
SyncTimeoutSec == 5
SampleSec == 1

(* ---- bounds of the model ---- *)
TicksPerSec == 10
MaxTransit == 2
MaxDuration == 1
MaxSeq == 5
MaxRecvSeq == 6
MaxStream == 5
MaxPackets == 2
MaxElapse == 3

Ms100 == TicksPerSec \div 10
DriftSlack == TicksPerSec \div 10
SyncTimeoutTicks == SyncTimeoutSec * TicksPerSec
SampleTicks == SampleSec * TicksPerSec

Skews == {0, Ms100}
CandidateSizes == {20, 21, 1000}
IntervalTicks == {2, 3}
Durations == 1..MaxDuration
Lags == {0, 1, 5}
Oversleeps == {0, 1}

Min(a, b) == IF a < b THEN a ELSE b

(* a C int stored by memcpy: 4 bytes, two's complement, least significant *)
(* byte first (\div and % round towards minus infinity, as the arithmetic  *)
(* shift does)                                                             *)
Int32Bytes(v) ==
  << v % 256, (v \div 256) % 256, (v \div 65536) % 256, (v \div 16777216) % 256 >>

BytesToInt32(b) ==
  b[1] + 256 * b[2] + 65536 * b[3]
       + 16777216 * (IF b[4] >= 128 THEN b[4] - 256 ELSE b[4])

(* the k-th byte of the double x is the cell <<x, k>> *)
DoubleBytes(x) == [k \in 1..8 |-> <<x, k>>]

DoubleFromBytes(b) ==
  IF \A k \in 1..8 : b[k][2] = k /\ b[k][1] = b[1][1] THEN b[1][1] ELSE b

HeaderBytes(s, ts, off, size) ==
  Int32Bytes(s) \o DoubleBytes(ts) \o DoubleBytes(off) \o Int32Bytes(size)

HeaderLen == 4 + 8 + 8 + 4

(* a datagram: its length and its first HeaderLen bytes (the filler after  *)
(* the header is never read)                                               *)
Datagram(n, bytes) == [len |-> n, bytes |-> SubSeq(bytes, 1, Min(n, Len(bytes)))]

(* client.c 147-153: option -s *)
AcceptsPacketSize(s) == ~(s <= HEADER_SIZE)

calculate_interval_bytes(ps, bw) == (ps * TicksPerSec) \div bw

(* client.c 109-112 *)
calculate_interval(ps, bw) == (ps * 8 * TicksPerSec) \div bw

(* client.c 255-263: the header is copied into packet_buffer (packet_size  *)
(* bytes) and sendto transmits packet_size bytes of it                     *)
EncodePacket(s, ts, off, size) == Datagram(size, HeaderBytes(s, ts, off, size))

VARIABLES
  now, skew,
  (* sender *)
  pc, packet_size, bandwidth, duration, offset,
  t1, t2, t3, t4, sync_buf, sync_resp, sync_status,
  start_time, end_time, seq, next_send_time, retry_count,
  sent, attempts, event, warned, tx_count, drop_count, cli_open,
  (* receiver *)
  spc, srv_open, sync_sock, data_sock, recv_buffer,
  start_sec, last_sec, bytes_interval, total_bytes, total_packets,
  last_seq, total_gaps, rx, stream, last_sample,
  accepted_bytes, window_bytes, sampled_bytes

clientVars == << pc, packet_size, bandwidth, duration, offset,
                 t1, t2, t3, t4, sync_buf, sync_status,
                 start_time, end_time, seq, next_send_time, retry_count,
                 sent, attempts, event, warned, tx_count, drop_count, cli_open >>
serverVars == << spc, srv_open, recv_buffer, start_sec, last_sec, bytes_interval,
                 total_bytes, total_packets, last_seq, total_gaps, rx, stream,
                 last_sample, accepted_bytes, window_bytes, sampled_bytes >>
vars == << now, skew, clientVars, sync_resp, sync_sock, data_sock, serverVars >>

(***************************************************************************)
(* Sender: udp_toolkit_client.c                                            *)
(***************************************************************************)

(* client.c 84 *)
NtpOffset(a1, a2, a3, a4) == ((a2 - a1) + (a3 - a4)) \div 2

RetryExhaustedEarly(rc) == rc >= RetryLimit

(* client.c 269 *)
RetryExhausted(rc) == rc > RetryLimit

SeqAfterDropReused(s) == s

(* client.c 274: a dropped packet still consumes its sequence number *)
SeqAfterDrop(s) == s + 1

(* client.c 293 *)
SeqAfterSend(s) == s + 1

NextSendTimeFromPrevious(st, s, interval) == st + ((s + 1) * interval)

(* client.c 296 *)
NextSendTime(st, s, interval) == st + (s * interval)

(* client.c 114-164: the configuration main has parsed *)
ClientConfig ==
  /\ packet_size \in {s \in CandidateSizes : AcceptsPacketSize(s)}
  /\ bandwidth \in {(packet_size * 8 * TicksPerSec) \div k : k \in IntervalTicks}
  /\ duration \in Durations
  /\ offset = 0
  /\ t1 = 0 /\ t2 = 0 /\ t3 = 0 /\ t4 = 0
  /\ sync_buf = <<>>
  /\ sync_status = "none"
  /\ start_time = 0 /\ end_time = 0 /\ seq = 0 /\ next_send_time = 0
  /\ retry_count = 0
  /\ sent = <<>> /\ attempts = 0 /\ event = "none" /\ warned = FALSE
  /\ tx_count = 0 /\ drop_count = 0

(* client.c 166-184: the sync socket is open, its timeout set *)
ClientInit ==
  /\ pc = "sync"
  /\ cli_open = {"sock_sync"}
  /\ ClientConfig

pacerVars == << start_time, end_time, seq, next_send_time, retry_count,
                sent, attempts, event, warned, tx_count, drop_count >>
configVars == << packet_size, bandwidth, duration >>
netVars == << skew, sync_resp, sync_sock, data_sock, serverVars >>
syncVars == << offset, t1, t2, t3, t4, sync_buf, sync_status >>

(* client.c 166-171: the sync socket is created, or main returns 1 *)
ClientSocket ==
  /\ pc = "start"
  /\ \E ok \in BOOLEAN :
       IF ok THEN /\ cli_open' = cli_open \cup {"sock_sync"}
                  /\ pc' = "sockopt"
             ELSE /\ cli_open' = cli_open
                  /\ pc' = "failed"
  /\ UNCHANGED << now, configVars, syncVars, pacerVars, netVars >>

(* client.c 173-181: SO_RCVTIMEO is set, or the socket is closed and main  *)
(* returns 1                                                               *)
ClientSetTimeout ==
  /\ pc = "sockopt"
  /\ \E ok \in BOOLEAN :
       IF ok THEN /\ cli_open' = cli_open
                  /\ pc' = "sync"
             ELSE /\ cli_open' = cli_open \ {"sock_sync"}
                  /\ pc' = "failed"
  /\ UNCHANGED << now, configVars, syncVars, pacerVars, netVars >>

(* client.c 186-232: the sync socket is closed; then the data socket       *)
(* cannot be created (189-193), or fcntl fails (196-208), or the address   *)
(* does not parse (216-220), or malloc fails (227-232): main returns 1     *)
SetupSteps == {"socket", "getfl", "setfl", "inet_pton", "malloc"}

ClientSetupFail ==
  /\ pc = "setup"
  /\ \E step \in SetupSteps :
       LET after_sync == cli_open \ {"sock_sync"}
           opened == IF step = "socket" THEN after_sync ELSE after_sync \cup {"sock"}
           closed == IF step = "socket" THEN {} ELSE {"sock"}
       IN  cli_open' = opened \ closed
  /\ pc' = "failed"
  /\ UNCHANGED << now, configVars, syncVars, pacerVars, netVars >>

(* client.c 52-59: t1 is read and the 8-byte request carrying it is sent *)
SyncSend ==
  /\ pc = "sync"
  /\ t1' = now
  /\ sync_sock' = << <<now>> >>
  /\ pc' = "sync_wait"
  /\ UNCHANGED << now, skew, configVars, cli_open, offset, t2, t3, t4, sync_buf, sync_status,
                  pacerVars, sync_resp, data_sock, serverVars >>

(* client.c 60-63: sendto fails, sync_clock_ntp returns 0.0 *)
SyncSendFail ==
  /\ pc = "sync"
  /\ t1' = now
  /\ offset' = 0
  /\ sync_status' = "send_failed"
  /\ pc' = "setup"
  /\ UNCHANGED << now, skew, configVars, cli_open, t2, t3, t4, sync_buf,
                  pacerVars, sync_resp, sync_sock, data_sock, serverVars >>

(* the request or the response is in flight while the sender blocks in     *)
(* recvfrom (client.c 66)                                                  *)
Transit ==
  /\ pc = "sync_wait"
  /\ now - t1 < 2 * MaxTransit
  /\ now' = now + 2
  /\ UNCHANGED << skew, clientVars, sync_resp, sync_sock, data_sock, serverVars >>

(* client.c 66-86: the response arrives; t4 is read, t2 is taken from the  *)
(* first 8 bytes of the buffer, t3 := t2, the offset is computed           *)
SyncRecv ==
  /\ pc = "sync_wait"
  /\ sync_resp # <<>>
  /\ LET buffer == Head(sync_resp)
     IN  /\ sync_buf' = buffer
         /\ t4' = now
         /\ t2' = buffer[1]
         /\ t3' = buffer[1]
         /\ offset' = NtpOffset(t1, buffer[1], buffer[1], now)
  /\ sync_resp' = <<>>
  /\ sync_status' = "ok"
  /\ pc' = "setup"
  /\ UNCHANGED << now, skew, configVars, cli_open, t1, pacerVars, sync_sock, data_sock, serverVars >>

(* client.c 68-71 with the SO_RCVTIMEO of 174-181: nothing arrives within  *)
(* 5 s (request or response lost, or no receiver); returns 0.0             *)
SyncTimeout ==
  /\ pc = "sync_wait"
  /\ now' = t1 + SyncTimeoutTicks
  /\ offset' = 0
  /\ sync_status' = "timeout"
  /\ sync_sock' = <<>>
  /\ sync_resp' = <<>>
  /\ pc' = "setup"
  /\ UNCHANGED << skew, configVars, cli_open, t1, t2, t3, t4, sync_buf, pacerVars,
                  data_sock, serverVars >>

(* client.c 185-244: the offset is printed, the data socket and the packet *)
(* buffer are set up and the loop variables initialised                    *)
StartLoop ==
  /\ pc = "setup"
  /\ start_time' = now
  /\ end_time' = now + duration * TicksPerSec
  /\ seq' = 0
  /\ next_send_time' = now
  /\ retry_count' = 0
  /\ t1' = 0 /\ t2' = 0 /\ t3' = 0 /\ t4' = 0 /\ sync_buf' = <<>>
  /\ cli_open' = (cli_open \ {"sock_sync"}) \cup {"sock", "packet_buffer"}
  /\ pc' = "loop"
  /\ UNCHANGED << now, skew, configVars, offset, sync_status,
                  sent, attempts, event, warned, tx_count, drop_count,
                  sync_resp, sync_sock, data_sock, serverVars >>

LoopConditionForever(t, e) == TRUE

(* client.c 246: while (monotonic_sec() < end_time) *)
LoopCondition(t, e) == t < e


(* client.c 246, 315-320: the clock has reached end_time; the loop ends    *)
LoopExitWith(lags) ==
  /\ pc = "loop"
  /\ \E lag \in lags :
       /\ ~LoopCondition(now + lag, end_time)
       /\ now' = now + lag
  /\ pc' = "done"
  /\ event' = "timeup"
  /\ cli_open' = cli_open \ {"packet_buffer", "sock"}
  /\ UNCHANGED << netVars, configVars, syncVars, start_time, end_time, seq,
                  next_send_time, retry_count, sent, attempts, warned,
                  tx_count, drop_count >>

(* client.c 246-263, 283-312: one iteration whose sendto succeeds *)
SendOkWith(lags, oversleeps) ==
  /\ pc = "loop"
  /\ seq < MaxSeq
  /\ \E lag \in lags, o \in oversleeps :
       LET send_ts == now + lag
           current_interval == calculate_interval(packet_size, bandwidth)
           nst == NextSendTime(start_time, seq + 1, current_interval)
           current_time == send_ts
           sleep_time == nst - current_time
       IN  /\ LoopCondition(send_ts, end_time)
           /\ sent' = << [seq |-> seq, send_ts |-> send_ts,
                          pkt |-> EncodePacket(seq, send_ts, offset, packet_size)] >>
           /\ next_send_time' = nst
           /\ IF sleep_time > 0
                THEN /\ now' = current_time + sleep_time + o
                     /\ warned' = FALSE
                ELSE /\ now' = current_time
                     /\ warned' = (sleep_time < 0 - DriftSlack)
  /\ retry_count' = 0
  /\ seq' = SeqAfterSend(seq)
  /\ attempts' = 0
  /\ tx_count' = tx_count + 1
  /\ event' = "sent"
  /\ UNCHANGED << netVars, configVars, cli_open, syncVars, pc, start_time, end_time, drop_count >>

(* the loop as the scheduler lets it run: any delay before an iteration,   *)
(* any lateness of the wake-up                                             *)
LoopExit == LoopExitWith(Lags)
SendOk == SendOkWith(Lags, Oversleeps)

(* the loop with no delay before an iteration and sleeps that wake on time *)
PunctualExit == LoopExitWith({0})
PunctualSend == SendOkWith({0}, {0})

(* client.c 246-278: one iteration whose sendto fails with EAGAIN or       *)
(* EWOULDBLOCK                                                             *)
SendWouldBlock ==
  /\ pc = "loop"
  /\ seq < MaxSeq
  /\ \E lag \in Lags :
       /\ LoopCondition(now + lag, end_time)
       /\ now' = now + lag
  /\ IF RetryExhausted(retry_count + 1)
       THEN /\ retry_count' = 0
            /\ seq' = SeqAfterDrop(seq)
            /\ attempts' = 0
            /\ drop_count' = drop_count + 1
            /\ event' = "dropped"
       ELSE /\ retry_count' = retry_count + 1
            /\ seq' = seq
            /\ attempts' = attempts + 1
            /\ drop_count' = drop_count
            /\ event' = "retry"
  /\ UNCHANGED << netVars, configVars, cli_open, syncVars, pc, start_time, end_time,
                  next_send_time, sent, warned, tx_count >>

PcAfterFatalContinue == "loop"

(* client.c 281: break leaves the while loop for the cleanup of 315-320 *)
PcAfterFatal == "done"

(* client.c 246-265, 279-282, 315-320: sendto fails with another errno;    *)
(* break                                                                   *)
SendFatal ==
  /\ pc = "loop"
  /\ \E lag \in Lags :
       /\ LoopCondition(now + lag, end_time)
       /\ now' = now + lag
  /\ pc' = PcAfterFatal
  /\ event' = "fatal"
  /\ cli_open' = cli_open \ {"packet_buffer", "sock"}
  /\ UNCHANGED << netVars, configVars, syncVars, start_time, end_time, seq,
                  next_send_time, retry_count, sent, attempts, warned,
                  tx_count, drop_count >>

(***************************************************************************)
(* Receiver: udp_toolkit_server.c                                          *)
(***************************************************************************)

(* server.c 41-61: msg.t1 is what the request carried, t2 and t3 are two   *)
(* readings of the receiver's clock; the whole msg is sent back            *)
handle_time_sync(req, clk) == << req[1], clk, clk >>

(* server.c 137: recvfrom overwrites the first bytes of recv_buffer *)
RecvInto(buf, bytes) ==
  [i \in 1..Len(buf) |-> IF i <= Len(bytes) THEN bytes[i] ELSE buf[i]]

(* server.c 147-154 *)
DecodeHeader(buf) ==
  [seq           |-> BytesToInt32(SubSeq(buf, 1, 4)),
   send_ts       |-> DoubleFromBytes(SubSeq(buf, 5, 12)),
   offset        |-> DoubleFromBytes(SubSeq(buf, 13, 20)),
   reported_size |-> BytesToInt32(SubSeq(buf, 21, 24))]

(* server.c 141 *)
HasHeader(n) == n >= HEADER_SIZE

GapSizeInclusive(s, ls) == s - ls

(* server.c 158 *)
GapSize(s, ls) == s - ls - 1

GapCountedAnyJump(gap_size) == gap_size # 0

(* server.c 159 *)
GapCounted(gap_size) == gap_size > 0

(* server.c 157-164 *)
GapUpdate(ls, tg, s) ==
  IF ls # -1 /\ s # ls + 1
    THEN IF GapCounted(GapSize(s, ls)) THEN tg + GapSize(s, ls) ELSE tg
    ELSE tg

NextLastSeqHighest(ls, s) == IF s > ls THEN s ELSE ls

(* server.c 165 *)
NextLastSeq(ls, s) == s

AddPayloadBytes(b, n) == b + (n - HEADER_SIZE)

(* server.c 192-193: the datagram's length n is added *)
AddBytes(b, n) == b + n

SampleDueStrict(clk, ls) == clk - ls > SampleTicks

(* server.c 203 *)
SampleDue(clk, ls) == clk - ls >= SampleTicks

NextWindowStartOnGrid(ls, clk) == ls + SampleTicks

(* server.c 221 *)
NextWindowStart(ls, clk) == clk

(* server.c 65-72, 102: the statistics and the uninitialised receive       *)
(* buffer; no datagram accepted or sampled yet                             *)
ServerStats(stale) ==
  /\ sync_sock = <<>>
  /\ data_sock = <<>>
  /\ sync_resp = <<>>
  /\ recv_buffer \in {HeaderBytes(0, 0, 0, v) : v \in stale}
  /\ start_sec = now + skew
  /\ last_sec = now + skew
  /\ bytes_interval = 0
  /\ total_bytes = 0
  /\ total_packets = 0
  /\ last_seq = -1
  /\ total_gaps = 0
  /\ rx = <<>>
  /\ stream = <<>>
  /\ last_sample = <<>>
  /\ accepted_bytes = 0
  /\ window_bytes = 0
  /\ sampled_bytes = 0

(* server.c 74-113: both sockets are bound and the buffer allocated; the   *)
(* receiver is about to enter its loop                                     *)
ServerInit(stale) ==
  /\ spc = "loop"
  /\ srv_open = {"sync_sock", "data_sock", "recv_buffer"}
  /\ ServerStats(stale)

(* server.c 78-79: the sync socket is created, or main returns 1 *)
ServerSyncSocket ==
  /\ spc = "start"
  /\ \E ok \in BOOLEAN :
       IF ok THEN /\ srv_open' = srv_open \cup {"sync_sock"}
                  /\ spc' = "sync_bind"
             ELSE /\ srv_open' = srv_open
                  /\ spc' = "failed"
  /\ UNCHANGED << now, skew, clientVars, sync_resp, sync_sock, data_sock,
                  recv_buffer, start_sec, last_sec, bytes_interval, total_bytes,
                  total_packets, last_seq, total_gaps, rx, stream, last_sample,
                  accepted_bytes, window_bytes, sampled_bytes >>

(* server.c 84-86: the sync socket is bound, or it is closed and main      *)
(* returns 1                                                               *)
ServerSyncBind ==
  /\ spc = "sync_bind"
  /\ \E ok \in BOOLEAN :
       IF ok THEN /\ srv_open' = srv_open
                  /\ spc' = "data_socket"
             ELSE /\ srv_open' = srv_open \ {"sync_sock"}
                  /\ spc' = "failed"
  /\ UNCHANGED << now, skew, clientVars, sync_resp, sync_sock, data_sock,
                  recv_buffer, start_sec, last_sec, bytes_interval, total_bytes,
                  total_packets, last_seq, total_gaps, rx, stream, last_sample,
                  accepted_bytes, window_bytes, sampled_bytes >>

(* server.c 90-91: the data socket is created, or main returns 1 at once *)
ServerDataSocket ==
  /\ spc = "data_socket"
  /\ \E ok \in BOOLEAN :
       IF ok THEN /\ srv_open' = srv_open \cup {"data_sock"}
                  /\ spc' = "data_bind"
             ELSE /\ srv_open' = srv_open
                  /\ spc' = "failed"
  /\ UNCHANGED << now, skew, clientVars, sync_resp, sync_sock, data_sock,
                  recv_buffer, start_sec, last_sec, bytes_interval, total_bytes,
                  total_packets, last_seq, total_gaps, rx, stream, last_sample,
                  accepted_bytes, window_bytes, sampled_bytes >>

(* server.c 96-98: the data socket is bound, or close(data_sock) and main  *)
(* returns 1                                                               *)
ServerDataBind ==
  /\ spc = "data_bind"
  /\ \E ok \in BOOLEAN :
       IF ok THEN /\ srv_open' = srv_open
                  /\ spc' = "malloc"
             ELSE /\ srv_open' = srv_open \ {"data_sock"}
                  /\ spc' = "failed"
  /\ UNCHANGED << now, skew, clientVars, sync_resp, sync_sock, data_sock,
                  recv_buffer, start_sec, last_sec, bytes_interval, total_bytes,
                  total_packets, last_seq, total_gaps, rx, stream, last_sample,
                  accepted_bytes, window_bytes, sampled_bytes >>

(* server.c 102-108: the receive buffer is allocated, or both sockets are  *)
(* closed and main returns 1                                               *)
ServerMalloc ==
  /\ spc = "malloc"
  /\ \E ok \in BOOLEAN :
       IF ok THEN /\ srv_open' = srv_open \cup {"recv_buffer"}
                  /\ spc' = "loop"
             ELSE /\ srv_open' = srv_open \ {"sync_sock", "data_sock"}
                  /\ spc' = "failed"
  /\ UNCHANGED << now, skew, clientVars, sync_resp, sync_sock, data_sock,
                  recv_buffer, start_sec, last_sec, bytes_interval, total_bytes,
                  total_packets, last_seq, total_gaps, rx, stream, last_sample,
                  accepted_bytes, window_bytes, sampled_bytes >>

(* server.c 120-123, 226-230: select fails; break, then the buffer is      *)
(* freed and both sockets closed                                           *)
SelectFail ==
  /\ spc = "loop"
  /\ srv_open' = srv_open \ {"recv_buffer", "sync_sock", "data_sock"}
  /\ spc' = "done"
  /\ UNCHANGED << now, skew, clientVars, sync_resp, sync_sock, data_sock,
                  recv_buffer, start_sec, last_sec, bytes_interval, total_bytes,
                  total_packets, last_seq, total_gaps, rx, stream, last_sample,
                  accepted_bytes, window_bytes, sampled_bytes >>

(* server.c 115-223: one iteration of the select loop *)
Reactor ==
  /\ spc = "loop"
  /\ sync_sock # <<>> \/ data_sock # <<>>
  /\ LET clk      == now + skew
         hasData  == data_sock # <<>>
         d        == Head(data_sock)
         buf1     == IF hasData THEN RecvInto(recv_buffer, d.bytes) ELSE recv_buffer
         accept   == hasData /\ HasHeader(d.len)
         h        == DecodeHeader(buf1)
         bi1      == IF accept THEN AddBytes(bytes_interval, d.len) ELSE bytes_interval
         tb1      == IF accept THEN AddBytes(total_bytes, d.len) ELSE total_bytes
         got      == IF accept THEN d.len ELSE 0
     IN  /\ IF sync_sock # <<>>
              THEN sync_resp' = << handle_time_sync(Head(sync_sock), clk) >>
              ELSE sync_resp' = sync_resp
         /\ sync_sock' = <<>>
         /\ data_sock' = <<>>
         /\ recv_buffer' = buf1
         /\ IF accept
              THEN /\ total_packets' = total_packets + 1
                   /\ total_gaps' = GapUpdate(last_seq, total_gaps, h.seq)
                   /\ last_seq' = NextLastSeq(last_seq, h.seq)
                   /\ rx' = << [seq |-> h.seq, send_ts |-> h.send_ts, offset |-> h.offset,
                                reported_size |-> h.reported_size, n |-> d.len,
                                pkt |-> d] >>
                   /\ stream' = Append(stream, h.seq)
              ELSE UNCHANGED << total_packets, total_gaps, last_seq, rx, stream >>
         /\ total_bytes' = tb1
         /\ accepted_bytes' = accepted_bytes + got
         /\ IF SampleDue(clk, last_sec)
              THEN /\ last_sample' = << [from |-> last_sec, to |-> clk,
                                         bytes |-> bi1, total |-> tb1] >>
                   /\ bytes_interval' = 0
                   /\ last_sec' = NextWindowStart(last_sec, clk)
                   /\ sampled_bytes' = sampled_bytes + bi1
                   /\ window_bytes' = 0
              ELSE /\ bytes_interval' = bi1
                   /\ window_bytes' = window_bytes + got
                   /\ UNCHANGED << last_sample, last_sec, sampled_bytes >>
  /\ UNCHANGED << now, skew, clientVars, start_sec, spc, srv_open >>

(* ---- the network and other senders ---- *)

RecvSeqValues == (0..MaxRecvSeq) \cup {-1}
Lens == {10, 20, 24}
RecvSeqs == {-1, 0, 2}
StaleSizes == {0, 1000}
ElapseStep == TicksPerSec \div 2

(* a well-formed data datagram with any 32-bit sequence field arrives *)
NetSeqData ==
  /\ data_sock = <<>>
  /\ Len(stream) < MaxStream
  /\ \E s \in RecvSeqValues :
       data_sock' = << Datagram(HeaderLen, HeaderBytes(s, 0, 0, HeaderLen)) >>
  /\ UNCHANGED << now, skew, clientVars, sync_resp, sync_sock, serverVars >>

(* a datagram of any length arrives on the data port *)
NetData ==
  /\ data_sock = <<>>
  /\ total_packets < MaxPackets
  /\ \E n \in Lens, s \in RecvSeqs :
       data_sock' = << Datagram(n, HeaderBytes(s, 0, 0, n)) >>
  /\ UNCHANGED << now, skew, clientVars, sync_resp, sync_sock, serverVars >>

(* a datagram too short to be accepted arrives on the data port *)
NetShortData ==
  /\ data_sock = <<>>
  /\ \E n \in {m \in Lens : ~HasHeader(m)}, s \in RecvSeqs :
       data_sock' = << Datagram(n, HeaderBytes(s, 0, 0, n)) >>
  /\ UNCHANGED << now, skew, clientVars, sync_resp, sync_sock, serverVars >>

(* a sync request arrives on the sync port *)
NetSync ==
  /\ sync_sock = <<>>
  /\ sync_sock' = << <<0>> >>
  /\ UNCHANGED << now, skew, clientVars, sync_resp, data_sock, serverVars >>

(* time passes *)
Elapse ==
  /\ now < MaxElapse * ElapseStep
  /\ now' = now + ElapseStep
  /\ UNCHANGED << skew, clientVars, sync_resp, sync_sock, data_sock, serverVars >>

(* the sender's monotonic clock advances while the send loop runs *)
Tick ==
  /\ pc = "loop"
  /\ now < end_time
  /\ now' = now + 1
  /\ UNCHANGED << skew, clientVars, sync_resp, sync_sock, data_sock, serverVars >>

(* the network delivers the datagram the sender transmitted last *)
Deliver ==
  /\ sent # <<>>
  /\ data_sock = <<>>
  /\ total_packets < MaxPackets
  /\ data_sock' = << Head(sent).pkt >>
  /\ UNCHANGED << now, skew, clientVars, sync_resp, sync_sock, serverVars >>

(***************************************************************************)
(* Specifications                                                          *)
(***************************************************************************)

(* the sender's run: clock sync against the receiver, then the send loop *)
Init ==
  /\ now = 0
  /\ skew \in Skews
  /\ ClientInit
  /\ ServerInit({0})

Next ==
  \/ SyncSend \/ SyncSendFail \/ Transit \/ Reactor \/ SyncRecv \/ SyncTimeout
  \/ StartLoop \/ SendOk \/ SendWouldBlock \/ SendFatal \/ LoopExit

Spec == Init /\ [][Next]_vars

(* the sender's run when every sendto succeeds and the scheduler is        *)
(* punctual                                                                *)
NextPunctual ==
  \/ SyncSend \/ SyncSendFail \/ Transit \/ Reactor \/ SyncRecv \/ SyncTimeout
  \/ StartLoop \/ PunctualSend \/ PunctualExit

SpecPunctual == Init /\ [][NextPunctual]_vars

(* both programs from the first statement of main that acquires a         *)
(* resource: every socket call, setsockopt, fcntl, bind and malloc may     *)
(* fail; the scheduler is punctual                                         *)
InitSetup ==
  /\ now = 0
  /\ skew \in Skews
  /\ pc = "start"
  /\ cli_open = {}
  /\ ClientConfig
  /\ spc = "start"
  /\ srv_open = {}
  /\ ServerStats({0})

NextSetup ==
  \/ ClientSocket \/ ClientSetTimeout
  \/ SyncSend \/ SyncSendFail \/ Transit \/ SyncRecv \/ SyncTimeout
  \/ ClientSetupFail \/ StartLoop \/ PunctualSend \/ SendFatal \/ PunctualExit
  \/ ServerSyncSocket \/ ServerSyncBind \/ ServerDataSocket \/ ServerDataBind
  \/ ServerMalloc \/ Reactor \/ SelectFail

SpecSetup == InitSetup /\ [][NextSetup]_vars

(* the send loop alone, the clock advancing between its iterations; the    *)
(* clock keeps advancing and the process keeps being scheduled             *)
InitPacer ==
  /\ now = 0
  /\ skew = 0
  /\ pc = "loop"
  /\ cli_open = {"sock", "packet_buffer"}
  /\ packet_size \in {s \in CandidateSizes : AcceptsPacketSize(s)}
  /\ bandwidth \in {(packet_size * 8 * TicksPerSec) \div k : k \in IntervalTicks}
  /\ duration \in Durations
  /\ offset = 0
  /\ t1 = 0 /\ t2 = 0 /\ t3 = 0 /\ t4 = 0
  /\ sync_buf = <<>>
  /\ sync_status = "timeout"
  /\ start_time = 0 /\ end_time = duration * TicksPerSec
  /\ seq = 0 /\ next_send_time = 0
  /\ retry_count = 0
  /\ sent = <<>> /\ attempts = 0 /\ event = "none" /\ warned = FALSE
  /\ tx_count = 0 /\ drop_count = 0
  /\ ServerInit({0})

PacerStep == SendOk \/ SendWouldBlock \/ SendFatal \/ LoopExit

NextPacer == PacerStep \/ Tick

SpecPacerLive ==
  InitPacer /\ [][NextPacer]_vars /\ WF_vars(Tick) /\ WF_vars(PacerStep)

(* the client's variables while only the receiver runs *)
ClientIdle ==
  /\ pc = "idle"
  /\ cli_open = {}
  /\ packet_size = 1000 /\ bandwidth = 1000000 /\ duration = 1
  /\ offset = 0
  /\ t1 = 0 /\ t2 = 0 /\ t3 = 0 /\ t4 = 0
  /\ sync_buf = <<>>
  /\ sync_status = "none"
  /\ start_time = 0 /\ end_time = 0 /\ seq = 0 /\ next_send_time = 0
  /\ retry_count = 0
  /\ sent = <<>> /\ attempts = 0 /\ event = "none" /\ warned = FALSE
  /\ tx_count = 0 /\ drop_count = 0

(* the receiver's sequence tracker fed with well-formed datagrams *)
InitGaps ==
  /\ now = 0
  /\ skew = 0
  /\ ClientIdle
  /\ ServerInit({0})

NextGaps == NetSeqData \/ Reactor

SpecGaps == InitGaps /\ [][NextGaps]_vars

(* the receiver's loop fed with arbitrary datagrams and sync requests *)
InitRecv ==
  /\ now = 0
  /\ skew = 0
  /\ ClientIdle
  /\ ServerInit(StaleSizes)

NextRecv == NetData \/ NetSync \/ Elapse \/ Reactor

SpecRecv == InitRecv /\ [][NextRecv]_vars

(* the receiver's loop woken by sync requests and rejected datagrams, the  *)
(* receiver being scheduled whenever select has a ready socket; nothing    *)
(* obliges the network to bring traffic                                    *)
NextRecvLive == NetShortData \/ NetSync \/ Elapse \/ Reactor

SpecRecvLive == InitRecv /\ [][NextRecvLive]_vars /\ WF_vars(Reactor)

(* the sender's loop transmitting to the receiver's data port *)
CodecOffsets == {0, -1}

InitCodec ==
  /\ now = 0
  /\ skew = 0
  /\ pc = "loop"
  /\ cli_open = {"sock", "packet_buffer"}
  /\ packet_size \in {s \in CandidateSizes : AcceptsPacketSize(s)}
  /\ bandwidth = (packet_size * 8 * TicksPerSec) \div 3
  /\ duration = 1
  /\ offset \in CodecOffsets
  /\ t1 = 0 /\ t2 = 0 /\ t3 = 0 /\ t4 = 0
  /\ sync_buf = <<>>
  /\ sync_status = "ok"
  /\ start_time = 0 /\ end_time = TicksPerSec /\ seq = 0 /\ next_send_time = 0
  /\ retry_count = 0
  /\ sent = <<>> /\ attempts = 0 /\ event = "none" /\ warned = FALSE
  /\ tx_count = 0 /\ drop_count = 0
  /\ ServerInit(StaleSizes)

NextCodec == SendOk \/ Deliver \/ Reactor

SpecCodec == InitCodec /\ [][NextCodec]_vars

(***************************************************************************)
(* Properties                                                              *)
(***************************************************************************)

current_interval == calculate_interval(packet_size, bandwidth)

(* the exchange is complete and the request and the response each took the *)
(* same time on the network (sync_buf holds the responder's t2 and t3,     *)
(* read on the clock that is skew ahead)                                   *)
SyncDone == pc = "setup" /\ sync_status = "ok"
SymmetricDelay == (sync_buf[2] - skew) - t1 = t4 - (sync_buf[3] - skew)

(* C1: after one exchange with symmetric network delay the computed offset *)
(* equals the amount the receiver's clock is ahead of the sender's, and is *)
(* ((t2-t1)+(t3-t4))/2 for the t2 and t3 the responder recorded.           *)
C1_OffsetEqualsSkew ==
  (SyncDone /\ SymmetricDelay) =>
     /\ offset = skew
     /\ offset = NtpOffset(t1, sync_buf[2], sync_buf[3], t4)

(* C2: when the sync response does not arrive within the timeout, the      *)
(* sender transmits no data packet.                                        *)
C2_NoDataAfterSyncTimeout ==
  sync_status = "timeout" => (tx_count = 0 /\ sent = <<>>)

StrictlyIncreasing(st) == \A i \in 1..(Len(st) - 1) : st[i] < st[i + 1]
CounterValues(st) == \A i \in 1..Len(st) : st[i] >= 0
Missing(st) ==
  Cardinality({k \in st[1]..st[Len(st)] : \A i \in 1..Len(st) : st[i] # k})

C4_ReorderCountsOne == stream = <<0, 2, 1, 3>> => total_gaps = 1

(* C4 as amended: in the stream [0,2,1,3] the jump 0->2 adds 1, the late   *)
(* arrival of 1 adds and removes nothing, and the following jump 1->3 adds *)
(* 1 again, so the stream ends with total_gaps = 2.                        *)
C4_ReorderCountsTwo ==
  /\ stream = <<0, 2>> => total_gaps = 1
  /\ stream = <<0, 2, 1>> => total_gaps = 1
  /\ stream = <<0, 2, 1, 3>> => total_gaps = 2

C4_Witness == stream = <<0, 2, 1, 3>> /\ last_seq = 3

Accepted == Len(stream') = Len(stream) + 1
AcceptedSeq == stream'[Len(stream')]

(* C5: total_gaps never decreases; an accepted packet whose sequence is    *)
(* <= last_seq, or = last_seq + 1, leaves total_gaps unchanged; after      *)
(* every accepted packet last_seq is that packet's sequence number.        *)
C5_TrackerInvariant ==
  [][ /\ total_gaps' >= total_gaps
      /\ Accepted =>
           /\ (stream # <<>> /\ AcceptedSeq <= last_seq) => total_gaps' = total_gaps
           /\ (stream # <<>> /\ AcceptedSeq = last_seq + 1) => total_gaps' = total_gaps
           /\ last_seq' = AcceptedSeq ]_vars

C5_Witness == stream = <<0, 3, 1>> /\ total_gaps = 2 /\ last_seq = 1

(* C6: a datagram on the data port shorter than the 24-byte header changes *)
(* neither last_seq nor total_gaps and adds nothing to bytes_interval or   *)
(* total_bytes.                                                            *)
C6_ShortDatagramRejected ==
  [][ (data_sock # <<>> /\ data_sock' = <<>> /\ Head(data_sock).len < HeaderLen) =>
         /\ last_seq' = last_seq
         /\ total_gaps' = total_gaps
         /\ total_bytes' = total_bytes
         /\ bytes_interval' \in {bytes_interval, 0} ]_vars

(* C7: what the receiver decodes from a datagram the sender transmitted is *)
(* the (seq, send_ts, offset, packet_size) the sender encoded.             *)
C7_CodecRoundTrip ==
  (rx # <<>> /\ sent # <<>> /\ Head(rx).pkt = Head(sent).pkt) =>
     /\ Head(rx).seq = Head(sent).seq
     /\ Head(rx).send_ts = Head(sent).send_ts
     /\ Head(rx).offset = offset
     /\ Head(rx).reported_size = packet_size

(* C8: no packet with sequence number n is transmitted before              *)
(* start_time + n * interval.                                              *)
C8_NotBeforeTarget ==
  sent # <<>> => Head(sent).send_ts >= start_time + Head(sent).seq * current_interval

(* C9: when the send before raised the drift warning (the clock was more   *)
(* than 100 ms past the next target), the next packet is transmitted at    *)
(* least one interval after that send.                                     *)
C9_NoCatchUpBurst ==
  [][ (warned /\ tx_count' = tx_count + 1) =>
         Head(sent').send_ts - Head(sent).send_ts >= current_interval ]_vars

(* C10: a packet is declared dropped only on the failure of its 5th retry  *)
(* (5 failed attempts before it), and then seq advances by 1 and           *)
(* retry_count is reset; a failed attempt that is not the last keeps seq;  *)
(* a success resets retry_count; a would-block failure leaves the sender   *)
(* in the send loop.                                                       *)
C10_BoundedRetry ==
  /\ [](attempts <= RetryLimit /\ retry_count <= RetryLimit)
  /\ [][ /\ drop_count' = drop_count + 1 =>
              (attempts = RetryLimit /\ seq' = seq + 1 /\ retry_count' = 0)
         /\ attempts' = attempts + 1 => (seq' = seq /\ drop_count' = drop_count)
         /\ tx_count' = tx_count + 1 => retry_count' = 0
         /\ (attempts' = attempts + 1 \/ drop_count' = drop_count + 1) => pc' = "loop" ]_vars

C10_Witness == event = "dropped" /\ drop_count = 1 /\ tx_count = 1 /\ seq = 2

CeilDiv(a, b) == (a + b - 1) \div b

(* C12: with no send failure and punctual wake-ups the interval is         *)
(* packet_size * 8 / bandwidth (to the tick), packet n is sent at          *)
(* start_time + n * interval, strictly before end_time, and the run ends   *)
(* with ceil(duration / interval) packets sent.                            *)
C12_PacketCount ==
  /\ current_interval * bandwidth <= packet_size * 8 * TicksPerSec
  /\ packet_size * 8 * TicksPerSec < (current_interval + 1) * bandwidth
  /\ sent # <<>> =>
       /\ Head(sent).send_ts = start_time + Head(sent).seq * current_interval
       /\ Head(sent).send_ts < end_time
  /\ pc = "done" =>
       /\ seq = CeilDiv(duration * TicksPerSec, current_interval)
       /\ tx_count = seq

C12_Witness ==
  /\ pc = "done" /\ current_interval = 3
  /\ tx_count = 4 /\ Head(sent).send_ts = start_time + 9

(* C13: no datagram is transmitted at or after end_time, and the send loop *)
(* is not still running or asleep once the clock is past end_time.         *)
C13_SpansExactlyDuration ==
  /\ sent # <<>> => Head(sent).send_ts < end_time
  /\ pc = "loop" => now <= end_time

(* the sleep requested after the last send (client.c 299-308: the clock    *)
(* is read right after the send, the request is next_send_time minus it)   *)
sleep_time == next_send_time - Head(sent).send_ts

(* C14: every sleep the send loop requests is at most one interval long.   *)
C14_SleepAtMostInterval ==
  sent # <<>> => sleep_time <= current_interval

Emission == last_sec' # last_sec

(* C15: a sample is emitted only when at least 1 s has passed since        *)
(* last_sec; its window is the true elapsed time; the emission resets      *)
(* bytes_interval to 0 and sets last_sec to the emission instant, and      *)
(* leaves start_sec alone and total_bytes at what the iteration's own      *)
(* datagram made it.                                                       *)
C15_WindowOnEmission ==
  [][ /\ Emission =>
           /\ (now + skew) - last_sec >= SampleTicks
           /\ last_sec' = now + skew
           /\ bytes_interval' = 0
           /\ Head(last_sample').to - Head(last_sample').from = (now + skew) - last_sec
           /\ start_sec' = start_sec
           /\ total_bytes' = total_bytes + (IF Accepted THEN Head(rx').n ELSE 0)
      /\ last_sample' # last_sample => Emission ]_vars

C15_Witness ==
  /\ last_sample # <<>>
  /\ Head(last_sample).to - Head(last_sample).from > SampleTicks
  /\ last_sec = now + skew
  /\ bytes_interval = 0 /\ total_bytes > 0

WindowDue == (now + skew) - last_sec >= SampleTicks
SocketReady == sync_sock # <<>> \/ data_sock # <<>>

(* C16 as stated: whenever 1 s or more has passed since last_sec, a sample *)
(* is emitted and the window reset, whether or not traffic arrives.        *)
C16_EmitsWheneverDue == WindowDue ~> ~WindowDue

(* C16 as amended: when 1 s or more has passed since last_sec and a        *)
(* datagram is waiting on either socket, the loop iteration that handles   *)
(* it emits the sample and resets the window; a sample is never emitted    *)
(* without a datagram having arrived.                                      *)
C16_EmitsOnNextDatagram ==
  /\ (WindowDue /\ SocketReady) ~> ~WindowDue
  /\ [][Emission => SocketReady]_vars

C16_Witness ==
  /\ last_sample # <<>> /\ ~WindowDue
  /\ total_packets = 0 /\ sync_resp # <<>>
  /\ now = MaxElapse * ElapseStep

(* C18: a send failure other than would-block aborts the loop: the failing *)
(* iteration transmits nothing and leaves the sequence counter alone, the  *)
(* loop is left at once, and from then on no datagram is transmitted and   *)
(* the counter never changes, whatever run time remains.                   *)
C18_FatalAbortsLoop ==
  /\ [](event = "fatal" => pc = "done")
  /\ [][ /\ event' = "fatal" =>
              /\ seq' = seq
              /\ tx_count' = tx_count
              /\ drop_count' = drop_count
              /\ sent' = sent
              /\ data_sock' = data_sock \/ data_sock' = <<>> ]_vars

C18_Witness ==
  /\ event = "fatal" /\ pc = "done"
  /\ now + Ms100 < end_time
  /\ tx_count = 1 /\ seq = 1

(* C17: every fatal exit path of the sender (socket creation, option,      *)
(* fcntl, address or allocation failure, fatal send fault) and of the      *)
(* receiver (socket creation, bind or allocation failure, select failure)  *)
(* ends with no socket open and no buffer allocated.                       *)
C17_FatalExitsReleaseAll ==
  /\ (pc = "failed" \/ (pc = "done" /\ event = "fatal")) => cli_open = {}
  /\ spc \in {"failed", "done"} => srv_open = {}

(* C19: the send loop terminates under every pattern of send outcomes      *)
(* provided the clock keeps advancing, and the retry path tests the time   *)
(* bound before every attempt: no retry and no drop happens at or after    *)
(* end_time.                                                               *)
C19_PacerTerminates ==
  /\ (pc = "loop") ~> (pc = "done")
  /\ [][ (retry_count' = retry_count + 1 \/ drop_count' = drop_count + 1)
            => now' < end_time ]_vars

C19_Witness ==
  /\ pc = "done" /\ event = "timeup"
  /\ tx_count = 0 /\ drop_count = 1 /\ retry_count = 2
  /\ now >= end_time

(* C20: total_bytes is the sum of the lengths of the accepted datagrams,   *)
(* bytes_interval the sum of the lengths of those accepted since the last  *)
(* sample emission; so total_bytes is the bytes of all emitted samples     *)
(* plus bytes_interval, and bytes_interval never exceeds total_bytes.      *)
C20_ByteAccounting ==
  /\ total_bytes = accepted_bytes
  /\ bytes_interval = window_bytes
  /\ total_bytes = sampled_bytes + bytes_interval
  /\ bytes_interval <= total_bytes

C20_Witness ==
  /\ last_sample # <<>> /\ Head(last_sample).bytes = 20
  /\ sampled_bytes = 20 /\ bytes_interval = 24 /\ total_bytes = 44
  /\ sync_resp # <<>>

(* server.c 71, 157: last_seq holds a sequence number, not the initial -1 *)
LastSeqSet == last_seq # -1

PreviousSeq == stream[Len(stream)]

(* C21: once a data packet has been accepted last_seq is set for the rest  *)
(* of the run, and for every later packet a forward jump (sequence >       *)
(* previous + 1) adds the missing count to total_gaps, whatever 32-bit     *)
(* value the previous packet carried, all-ones included.                   *)
C21_SetAfterFirstPacket ==
  /\ [](stream # <<>> => LastSeqSet)
  /\ [][ (Accepted /\ stream # <<>> /\ AcceptedSeq > PreviousSeq + 1)
            => total_gaps' = total_gaps + (AcceptedSeq - PreviousSeq - 1) ]_vars

====
